---- MODULE Spec2Model ----
(***************************************************************************)
(* Model of the VoiceAssistant component (src/unnamed/part_000): the       *)
(* session / reconnect state machine (startGeminiSession, stopSession,      *)
(* scheduleReconnect, the Session callbacks) and the playback scheduler     *)
(* (onmessage, stopAudioPlayback).                                          *)
(*                                                                          *)
(* Every connection attempt that passes the guard of startGeminiSession     *)
(* gets a number 1..MaxAttempts; the capture stream, the two audio contexts *)
(* and the Session created by attempt a are all identified by a.  A ref     *)
(* holding 0 is null.                                                       *)
(*                                                                          *)
(* An await on a promise that is already settled resumes in a microtask,    *)
(* before any other event is delivered, so it is modelled inside the same   *)
(* action; an await on a pending promise suspends the invocation until the  *)
(* action that settles the promise.                                         *)
(***************************************************************************)
EXTENDS Integers, Sequences, FiniteSets, TLC

\* ---- bounds ----
MaxAttempts == 3
MaxChunks == 3
MaxInterrupts == 1
MaxClock == 1
MaxDur == 1
MaxClients == 2
MaxFrames == 1
MaxLen == 2
GridDen == 4
MaxNum == 5
MaxReplayChunks == 1
MaxResampleLen == 16

Attempts == 1..MaxAttempts
Durations == 0..MaxDur
Clients == 1..MaxClients

\* Sample values are the rationals n / GridDen; a frame is a sequence of
\* numerators.  Values beyond 1 and -1 are in the grid.
Samples == (-MaxNum)..MaxNum
Frames == UNION {[1..n -> Samples] : n \in 0..MaxLen}
TargetSampleRate == 16000
MantissaBits == 52

VARIABLES
    lifecycle,              \* "created" | "mounted" | "unmounted" (the lifecycle effect)
    mode, statusMessage, isModelSpeaking, isPermanentError,
    sessionRef, initializingRef, mountedRef, streamRef,
    audioContextRef, outputAudioContextRef, scriptProcessorRef, sourceRef,
    nextStartTimeRef, playingSourcesRef, reconnectTimeoutRef,
    timers,                 \* pending setTimeout ids, in arming order
    session,                \* attempt -> state of the Session / its connect promise
    stream,                 \* attempt -> state of the capture stream
    inCtx, outCtx,          \* attempt -> state of the input / output AudioContext
    clock,                  \* attempt -> currentTime of its output AudioContext
    gumPending,             \* attempt suspended in await getUserMedia (0: none)
    attempts,               \* number of startGeminiSession invocations that passed the guard
    stops,                  \* suspended stopSession invocations, in call order
    decodes,                \* onmessage invocations suspended in await decodeAudioData:
                            \* their number, per output context and interruption flag
    endPending,             \* number of sources stopped by stop() whose onended has not fired yet
    chunks, interrupts,     \* number of audio chunks / interruption signals onmessage
                            \* handled (none while unmounted: line 377 returns)
    scheduled,              \* number of sources given to source.start()
    staleDecodes,           \* among decodes: those of chunks that arrived before an
                            \* interruption signalled without audio
    lastStart,              \* start time given to the last source.start() since the cursor reset
    maxStart,               \* largest start time given to source.start() so far
    timerStarts,            \* number of timer-triggered invocations that passed the guard
    failed,                 \* attempts that failed transiently (reject, close, error, throw)
    permanent,              \* attempts that ended in the permanent-error state
    blockedStarts,          \* number of invocations the guard of line 224 turned away
    setTimeouts,            \* number of calls of setTimeout (line 214)
    relay,                  \* relay server (src/server.js): client connection -> its state
    pcm,                    \* the last call of createPcmBlobForGemini: input, rate, output
    capture,                \* captured packets: how many were sent, how many sends failed
    resample                \* the last call on the resampling path: length, rate, reads

appVars == <<lifecycle, mode, statusMessage, isModelSpeaking, isPermanentError,
          sessionRef, initializingRef, mountedRef, streamRef,
          audioContextRef, outputAudioContextRef, scriptProcessorRef, sourceRef,
          nextStartTimeRef, playingSourcesRef, reconnectTimeoutRef,
          timers, session, stream, inCtx, outCtx, clock, gumPending, attempts,
          stops, decodes, endPending, chunks, interrupts, scheduled, staleDecodes,
          lastStart, maxStart,
          timerStarts, failed, permanent, blockedStarts, setTimeouts>>

vars == <<appVars, relay, pcm, capture, resample>>

\* The current state as one record, so that handlers compose sequentially.
Cur ==
    [lifecycle |-> lifecycle, mode |-> mode, statusMessage |-> statusMessage,
     isModelSpeaking |-> isModelSpeaking, isPermanentError |-> isPermanentError,
     sessionRef |-> sessionRef, initializingRef |-> initializingRef,
     mountedRef |-> mountedRef, streamRef |-> streamRef,
     audioContextRef |-> audioContextRef,
     outputAudioContextRef |-> outputAudioContextRef,
     scriptProcessorRef |-> scriptProcessorRef, sourceRef |-> sourceRef,
     nextStartTimeRef |-> nextStartTimeRef, playingSourcesRef |-> playingSourcesRef,
     reconnectTimeoutRef |-> reconnectTimeoutRef, timers |-> timers,
     session |-> session, stream |-> stream, inCtx |-> inCtx, outCtx |-> outCtx,
     clock |-> clock, gumPending |-> gumPending, attempts |-> attempts,
     stops |-> stops, decodes |-> decodes, endPending |-> endPending,
     chunks |-> chunks, interrupts |-> interrupts, scheduled |-> scheduled,
     staleDecodes |-> staleDecodes,
     lastStart |-> lastStart,
     maxStart |-> maxStart,
     timerStarts |-> timerStarts, failed |-> failed, permanent |-> permanent,
     blockedStarts |-> blockedStarts, setTimeouts |-> setTimeouts]

Set(s) ==
    /\ lifecycle' = s.lifecycle
    /\ mode' = s.mode
    /\ statusMessage' = s.statusMessage
    /\ isModelSpeaking' = s.isModelSpeaking
    /\ isPermanentError' = s.isPermanentError
    /\ sessionRef' = s.sessionRef
    /\ initializingRef' = s.initializingRef
    /\ mountedRef' = s.mountedRef
    /\ streamRef' = s.streamRef
    /\ audioContextRef' = s.audioContextRef
    /\ outputAudioContextRef' = s.outputAudioContextRef
    /\ scriptProcessorRef' = s.scriptProcessorRef
    /\ sourceRef' = s.sourceRef
    /\ nextStartTimeRef' = s.nextStartTimeRef
    /\ playingSourcesRef' = s.playingSourcesRef
    /\ reconnectTimeoutRef' = s.reconnectTimeoutRef
    /\ timers' = s.timers
    /\ session' = s.session
    /\ stream' = s.stream
    /\ inCtx' = s.inCtx
    /\ outCtx' = s.outCtx
    /\ clock' = s.clock
    /\ gumPending' = s.gumPending
    /\ attempts' = s.attempts
    /\ stops' = s.stops
    /\ decodes' = s.decodes
    /\ endPending' = s.endPending
    /\ chunks' = s.chunks
    /\ interrupts' = s.interrupts
    /\ scheduled' = s.scheduled
    /\ staleDecodes' = s.staleDecodes
    /\ lastStart' = s.lastStart
    /\ maxStart' = s.maxStart
    /\ timerStarts' = s.timerStarts
    /\ failed' = s.failed
    /\ permanent' = s.permanent
    /\ blockedStarts' = s.blockedStarts
    /\ setTimeouts' = s.setTimeouts
    /\ relay' = relay
    /\ pcm' = pcm
    /\ capture' = capture
    /\ resample' = resample

\* ---- helpers ----
Max(a, b) == IF a >= b THEN a ELSE b

MinOf(S) == CHOOSE x \in S : \A y \in S : x <= y

RemoveAt(seq, i) == SubSeq(seq, 1, i - 1) \o SubSeq(seq, i + 1, Len(seq))

SeqRange(seq) == {seq[i] : i \in 1..Len(seq)}

RemoveVal(seq, v) == SelectSeq(seq, LAMBDA x : x # v)

\* The element of a one-element set.  Every handler takes the state it starts
\* from as a value, {... : s \in {s0}}, and gives back the state it leaves.
Only(S) == CHOOSE r \in S : TRUE

\* setTimeout returns an id that no pending timer has.
FreshTimer(s) == MinOf({i \in 1..(Len(s.timers) + 1) : i \notin SeqRange(s.timers)})

\* The relay server's view of a client connection that does not exist yet.
\* ws: the client WebSocket; connect: the ai.live.connect promise; session:
\* the handler's variable holds a Session; remote: the Session itself;
\* listening: the message / close handlers of lines 78-104 are registered.
NoClient ==
    [ws |-> "none", connect |-> "none", session |-> FALSE, remote |-> "none",
     listening |-> FALSE, connects |-> 0, frames |-> 0, forwarded |-> 0,
     dropped |-> 0, audio |-> 0, relayed |-> 0, uncaught |-> FALSE]

Init ==
    /\ lifecycle = "created"
    /\ mode = "connecting"
    /\ statusMessage = "Initializing..."
    /\ isModelSpeaking = FALSE
    /\ isPermanentError = FALSE
    /\ sessionRef = 0
    /\ initializingRef = FALSE
    /\ mountedRef = TRUE
    /\ streamRef = 0
    /\ audioContextRef = 0
    /\ outputAudioContextRef = 0
    /\ scriptProcessorRef = 0
    /\ sourceRef = 0
    /\ nextStartTimeRef = 0
    /\ playingSourcesRef = {}
    /\ reconnectTimeoutRef = 0
    /\ timers = <<>>
    /\ session = [a \in Attempts |-> "none"]
    /\ stream = [a \in Attempts |-> "none"]
    /\ inCtx = [a \in Attempts |-> "none"]
    /\ outCtx = [a \in Attempts |-> "none"]
    /\ clock = [a \in Attempts |-> 0]
    /\ gumPending = 0
    /\ attempts = 0
    /\ stops = <<>>
    /\ decodes = [a \in Attempts, i \in BOOLEAN |-> 0]
    /\ endPending = 0
    /\ chunks = 0
    /\ interrupts = 0
    /\ scheduled = 0
    /\ staleDecodes = [a \in Attempts, i \in BOOLEAN |-> 0]
    /\ lastStart = 0
    /\ maxStart = 0
    /\ timerStarts = 0
    /\ failed = {}
    /\ permanent = {}
    /\ blockedStarts = 0
    /\ setTimeouts = 0
    /\ relay = [c \in Clients |-> NoClient]
    /\ pcm = [called |-> FALSE, input |-> <<>>, rate |-> TargetSampleRate, int16 |-> <<>>]
    /\ capture = [sent |-> 0, failed |-> 0]
    /\ resample = [called |-> FALSE, length |-> 0, rate |-> TargetSampleRate,
                   newLength |-> 0, reads |-> {}]

\* ---- stopAudioPlayback (lines 145-154) ----
stopAudioPlayback(s0) ==
    Only({(
        IF s.outputAudioContextRef # 0
        THEN [s EXCEPT !.endPending = @ + Cardinality(s.playingSourcesRef),
                       !.playingSourcesRef = {},
                       !.nextStartTimeRef = 0,
                       !.lastStart = 0,
                       !.isModelSpeaking = FALSE]
        ELSE s
        ) : s \in {s0}})

\* ---- stopSession (lines 156-200), in the segments its awaits cut it into ----

\* The promise stopSession returns resolves; cont is TRUE for the invocation
\* made by scheduleReconnect, whose .then arms the timer (lines 211-217).
StopDone(s0, cont) ==
    Only({(
        IF cont /\ s.mountedRef
        THEN LET t == FreshTimer(s)
             IN [s EXCEPT !.reconnectTimeoutRef = t, !.timers = Append(@, t),
                          !.setTimeouts = @ + 1]
        ELSE s
        ) : s \in {s0}})

\* After await outputAudioContextRef.current.close() (line 198).
StopAfterOutClose(s0, cont) ==
    Only({(
        StopDone([s EXCEPT !.outputAudioContextRef = 0], cont)
        ) : s \in {s0}})

\* Lines 194-199.  close() on a context that is not open rejects at once.
StopFromOutput(s0, cont) ==
    Only({(
        IF s.outputAudioContextRef # 0
        THEN LET s1 == stopAudioPlayback(s)
                 c == s1.outputAudioContextRef
             IN IF s1.outCtx[c] = "open"
                THEN [s1 EXCEPT !.outCtx[c] = "closing",
                                !.stops = Append(@, [pc |-> "outCtx", p |-> c, cont |-> cont])]
                ELSE StopAfterOutClose(s1, cont)
        ELSE StopDone(s, cont)
        ) : s \in {s0}})

\* After await audioContextRef.current.close() (line 191).
StopAfterInClose(s0, cont) ==
    Only({(
        StopFromOutput([s EXCEPT !.audioContextRef = 0], cont)
        ) : s \in {s0}})

\* Lines 174-192.
StopFromStream(s0, cont) ==
    Only({(
        LET s1 == IF s.streamRef # 0
                  THEN [s EXCEPT !.stream[s.streamRef] = "stopped", !.streamRef = 0]
                  ELSE s
            s2 == IF s1.scriptProcessorRef # 0
                  THEN [s1 EXCEPT !.scriptProcessorRef = 0, !.sourceRef = 0]
                  ELSE s1
            c == s2.audioContextRef
        IN IF c # 0
           THEN IF s2.inCtx[c] = "open"
                THEN [s2 EXCEPT !.inCtx[c] = "closing",
                                !.stops = Append(@, [pc |-> "inCtx", p |-> c, cont |-> cont])]
                ELSE StopAfterInClose(s2, cont)
           ELSE StopFromOutput(s2, cont)
        ) : s \in {s0}})

\* A stopSession that forgets session.close().
CloseSessionSkipped(s, p) == s

\* session.close() (line 167): closes an open Session, no effect otherwise.
CloseSession(s0, p) ==
    Only({(
        IF s.session[p] \in {"open", "failing"}
        THEN [s EXCEPT !.session[p] = "closing"]
        ELSE s
        ) : s \in {s0}})

\* After await sessionRef.current (lines 166-172); p is the awaited promise.
\* A rejected promise throws into the catch; sessionRef is nulled either way.
StopAfterSession(s0, p, cont) ==
    Only({(
        StopFromStream([CloseSession(s, p) EXCEPT !.sessionRef = 0], cont)
        ) : s \in {s0}})

\* Lines 157-166: the synchronous start of stopSession.
stopSession(s0, cont) ==
    Only({(
        LET s1 == IF s.reconnectTimeoutRef # 0
                  THEN [s EXCEPT !.timers = RemoveVal(@, s.reconnectTimeoutRef),
                                 !.reconnectTimeoutRef = 0]
                  ELSE s
            p == s1.sessionRef
        IN IF p # 0
           THEN IF s1.session[p] = "pending"
                THEN [s1 EXCEPT !.stops = Append(@, [pc |-> "session", p |-> p, cont |-> cont])]
                ELSE StopAfterSession(s1, p, cont)
           ELSE StopFromStream(s1, cont)
        ) : s \in {s0}})

\* The connect promise of attempt a settles: the stopSession invocations
\* awaiting it resume in the order they started to wait.
RECURSIVE ResumeWaiters(_, _)
ResumeWaiters(s0, a) ==
    Only({(
        LET idx == {i \in 1..Len(s.stops) : s.stops[i].pc = "session" /\ s.stops[i].p = a}
        IN IF idx = {}
           THEN s
           ELSE LET i == MinOf(idx)
                    cont == s.stops[i].cont
                IN ResumeWaiters(StopAfterSession([s EXCEPT !.stops = RemoveAt(@, i)], a, cont), a)
        ) : s \in {s0}})

\* ---- scheduleReconnect (lines 203-218) ----
scheduleReconnect(s0, msg) ==
    Only({(
        IF ~s.mountedRef
        THEN s
        ELSE stopSession([s EXCEPT !.statusMessage = msg \o " Retrying in 3s...",
                                   !.mode = "error"], TRUE)
        ) : s \in {s0}})

\* ---- startGeminiSession (lines 222-435) ----

\* A guard that forgets the initialization flag.
StartPassesSessionOnly(s) == s.sessionRef = 0

\* Lines 222-249: the guard, and the part up to await getUserMedia.
\* apiMissing: navigator.mediaDevices is absent (line 235), the throw goes to
\* the outer catch (lines 427-434).
StartPasses(s) == ~(s.sessionRef # 0 \/ s.initializingRef)

startGeminiSession(s0, apiMissing) ==
    Only({(
        IF ~StartPasses(s)
        THEN [s EXCEPT !.blockedStarts = @ + 1]
        ELSE LET a == s.attempts + 1
                 s1 == [s EXCEPT !.initializingRef = TRUE, !.attempts = a]
                 s2 == IF s1.mountedRef
                       THEN [s1 EXCEPT !.mode = "connecting",
                                       !.statusMessage = "Connecting...",
                                       !.isPermanentError = FALSE]
                       ELSE s1
             IN IF apiMissing
                THEN [(IF s2.mountedRef
                       THEN scheduleReconnect(s2, "Initialization Failed.")
                       ELSE s2)
                      EXCEPT !.initializingRef = FALSE, !.failed = @ \cup {a}]
                ELSE [s2 EXCEPT !.gumPending = a]
        ) : s \in {s0}})

CanStart(s) == ~StartPasses(s) \/ s.attempts < MaxAttempts

\* The lifecycle effect runs (lines 439-441).
Mount ==
    /\ lifecycle = "created"
    /\ \E apiMissing \in BOOLEAN :
         Set(startGeminiSession([Cur EXCEPT !.lifecycle = "mounted", !.mountedRef = TRUE],
                                apiMissing))

\* The cleanup of the lifecycle effect (lines 442-445).
Unmount ==
    /\ lifecycle = "mounted"
    /\ Set(stopSession([Cur EXCEPT !.lifecycle = "unmounted", !.mountedRef = FALSE], FALSE))

\* The reconnect timer expires (lines 214-216).  Timers of equal delay expire
\* in arming order.  The ref keeps the id of an expired timer.
TimerFire ==
    /\ timers # <<>>
    /\ CanStart(Cur)
    /\ \E apiMissing \in BOOLEAN :
         Set(startGeminiSession([Cur EXCEPT !.timers = Tail(@),
                                            !.timerStarts = IF StartPasses(Cur)
                                                            THEN @ + 1 ELSE @],
                                apiMissing))

\* The Retry button, rendered while isPermanentError (lines 482-492).
Retry ==
    /\ lifecycle = "mounted"
    /\ isPermanentError
    /\ CanStart(Cur)
    /\ \E apiMissing \in BOOLEAN :
         Set(startGeminiSession([Cur EXCEPT !.isPermanentError = FALSE], apiMissing))

\* getUserMedia rejects (lines 250-267, finally 432-434).
\* The errors getUserMedia rejects with: err.name and err.message.
ErrNames == {"NotAllowedError", "PermissionDeniedError", "NotFoundError",
             "DevicesNotFoundError", "Error"}
ErrMessages == {"", "boom", "permission denied", "device not found"}

\* msg.includes("permission") and msg.includes("not found") on ErrMessages.
IncludesPermission(msg) == msg = "permission denied"
IncludesNotFound(msg) == msg = "device not found"

\* Lines 258-265: the status message for a rejected getUserMedia.
MicStatus(name, msg) ==
    IF name \in {"NotAllowedError", "PermissionDeniedError"} \/ IncludesPermission(msg)
    THEN "Microphone Permission Denied"
    ELSE IF name \in {"NotFoundError", "DevicesNotFoundError"} \/ IncludesNotFound(msg)
         THEN "No Microphone Found"
         ELSE "Microphone Error: " \o (IF msg = "" THEN "Unknown" ELSE msg)

GumStatus == {MicStatus(name, msg) : name \in ErrNames, msg \in ErrMessages}

GumReject ==
    /\ gumPending # 0
    /\ \E name \in ErrNames, msg \in ErrMessages :
         LET s == [Cur EXCEPT !.gumPending = 0]
             s1 == IF s.mountedRef
                   THEN [s EXCEPT !.mode = "error", !.isPermanentError = TRUE,
                                  !.statusMessage = MicStatus(name, msg)]
                   ELSE s
         IN Set([s1 EXCEPT !.initializingRef = FALSE,
                           !.permanent = IF s.mountedRef THEN @ \cup {gumPending} ELSE @])

\* An unmounted component that keeps the granted stream and returns.
GrantedUnmountedKeepsTracks(s, a) ==
    [s EXCEPT !.gumPending = 0, !.stream[a] = "live", !.initializingRef = FALSE]

\* Lines 269-272 and the finally of lines 432-434: the component was
\* unmounted during getUserMedia; the tracks are stopped and the call returns.
GrantedUnmounted(s, a) ==
    [s EXCEPT !.gumPending = 0, !.stream[a] = "stopped", !.initializingRef = FALSE]

\* getUserMedia resolves (lines 269-434).  ctxFail: 0 both contexts are
\* created, 1 the first constructor throws, 2 the second one throws.
\* connectThrows: lines 310-312 throw synchronously into the outer catch.
GumResolveOn(s0, ctxFail, connectThrows) ==
    Only({(
        LET a == s.gumPending
            s1 == [s EXCEPT !.gumPending = 0, !.stream[a] = "live", !.streamRef = a]
        IN IF ~s.mountedRef
           THEN GrantedUnmounted(s, a)
           ELSE IF ctxFail # 0
                THEN LET s2 == [s1 EXCEPT !.inCtx[a] = IF ctxFail = 2 THEN "open" ELSE @,
                                          !.stream[a] = "stopped",
                                          !.streamRef = 0]
                         s3 == IF s2.mountedRef
                               THEN [s2 EXCEPT !.mode = "error", !.isPermanentError = TRUE,
                                               !.statusMessage = "Audio Driver Error"]
                               ELSE s2
                     IN [s3 EXCEPT !.initializingRef = FALSE, !.permanent = @ \cup {a}]
                ELSE LET s2 == [s1 EXCEPT !.inCtx[a] = "open", !.outCtx[a] = "open",
                                          !.audioContextRef = a,
                                          !.outputAudioContextRef = a]
                     IN IF connectThrows
                        THEN [(IF s2.mountedRef
                               THEN scheduleReconnect(s2, "Initialization Failed.")
                               ELSE s2)
                              EXCEPT !.initializingRef = FALSE, !.failed = @ \cup {a}]
                        ELSE [s2 EXCEPT !.session[a] = "pending", !.sessionRef = a,
                                        !.initializingRef = FALSE]
        ) : s \in {s0}})

GumResolve ==
    /\ gumPending # 0
    /\ \E ctxFail \in 0..2, connectThrows \in BOOLEAN :
         Set(GumResolveOn(Cur, ctxFail, connectThrows))

\* ---- the callbacks of the Session of attempt a ----

\* onopen (lines 320-375).  setup: 0 the capture pipeline is wired, 1
\* createMediaStreamSource throws, 2 createScriptProcessor throws.
onopen(s0, a, setup) ==
    Only({(
        IF ~s.mountedRef
        THEN s
        ELSE LET s1 == [s EXCEPT !.mode = "active", !.statusMessage = "Listening..."]
             IN CASE setup = 0 -> [s1 EXCEPT !.sourceRef = a, !.scriptProcessorRef = a]
                  [] setup = 1 -> scheduleReconnect([s1 EXCEPT !.failed = @ \cup {a}],
                                                    "Audio Setup Failed")
                  [] OTHER -> scheduleReconnect([s1 EXCEPT !.sourceRef = a,
                                                           !.failed = @ \cup {a}],
                                                "Audio Setup Failed")
        ) : s \in {s0}})

\* The connection opens: onopen runs, then the connect promise resolves.
ConnectResolve(a) ==
    /\ session[a] = "pending"
    /\ \E setup \in 0..2 :
         LET s1 == onopen(Cur, a, setup)
         IN Set(ResumeWaiters([s1 EXCEPT !.session[a] = "open"], a))

\* The connect promise rejects: the catch of lines 420-423 was registered
\* first, then the suspended stopSession invocations resume.
ConnectReject(a) ==
    /\ session[a] = "pending"
    /\ LET s1 == scheduleReconnect([Cur EXCEPT !.failed = @ \cup {a}], "Network Error.")
       IN Set(ResumeWaiters([s1 EXCEPT !.session[a] = "rejected"], a))

\* onerror (lines 413-416); the connection is lost, its close event follows.
OnError(a) ==
    /\ session[a] = "open"
    /\ Set(scheduleReconnect([Cur EXCEPT !.session[a] = "failing", !.failed = @ \cup {a}],
                             "Connection lost."))

\* onclose (lines 409-412): the close event of the connection, whichever
\* side closed it.
OnClose(a) ==
    /\ session[a] \in {"open", "failing", "closing"}
    /\ Set(scheduleReconnect([Cur EXCEPT !.session[a] = "closed",
                                          !.failed = IF session[a] = "closing"
                                                     THEN @ ELSE @ \cup {a}],
                             "Session ended."))

\* An AudioContext finishes closing; the stopSession awaiting it resumes.
InCtxClosed(a) ==
    /\ inCtx[a] = "closing"
    /\ \E i \in 1..Len(stops) :
         /\ stops[i].pc = "inCtx" /\ stops[i].p = a
         /\ Set(StopAfterInClose([Cur EXCEPT !.inCtx[a] = "closed",
                                             !.stops = RemoveAt(@, i)],
                                 stops[i].cont))

OutCtxClosed(a) ==
    /\ outCtx[a] = "closing"
    /\ \E i \in 1..Len(stops) :
         /\ stops[i].pc = "outCtx" /\ stops[i].p = a
         /\ Set(StopAfterOutClose([Cur EXCEPT !.outCtx[a] = "closed",
                                              !.stops = RemoveAt(@, i)],
                                  stops[i].cont))

\* ---- playback (onmessage, lines 376-408) ----

\* A scheduler that starts every chunk at the current time.
StartTimeNow(cursor, now) == now

\* Line 396: the start time of a decoded chunk.
StartTime(cursor, now) == Max(cursor, now)

\* A scheduler that forgets the start time when it advances the cursor.
AdvanceCursorByDuration(startTime, dur) == dur

\* Line 398: the cursor after a chunk was scheduled.
AdvanceCursor(startTime, dur) == startTime + dur

\* After await decodeAudioData (lines 386-399, catch 400-402, then 405-407)
\* in a handler of the Session of attempt a.  ok = FALSE: the decode threw.
\* stale: the chunk arrived before an interruption signalled without audio.
AfterDecode(s0, a, interrupted, stale, ok, dur) ==
    Only({(
        LET sd == [s EXCEPT !.decodes[a, interrupted] = @ - 1,
                            !.staleDecodes[a, interrupted] = IF stale THEN @ - 1 ELSE @]
            now == s.clock[a]
            startTime == StartTime(s.nextStartTimeRef, now)
            s1 == IF ok
                  THEN [sd EXCEPT !.nextStartTimeRef = AdvanceCursor(startTime, dur),
                                  !.scheduled = @ + 1,
                                  !.lastStart = startTime,
                                  !.maxStart = Max(@, startTime),
                                  !.playingSourcesRef =
                                      @ \cup {[id |-> s.scheduled + 1, start |-> startTime,
                                               dur |-> dur, a |-> a]}]
                  ELSE sd
        IN IF interrupted THEN stopAudioPlayback(s1) ELSE s1
        ) : s \in {s0}})

\* A message arrives (lines 376-385 and, without audio, 405-407).
OnMessage(a) ==
    /\ session[a] \in {"open", "closing"}
    /\ \E data \in BOOLEAN, interrupted \in BOOLEAN :
         /\ data \/ interrupted
         /\ data => chunks < MaxChunks
         /\ interrupted => interrupts < MaxInterrupts
         /\ LET s == [Cur EXCEPT !.chunks = IF data THEN @ + 1 ELSE @,
                                 !.interrupts = IF interrupted THEN @ + 1 ELSE @]
            IN IF ~mountedRef
               THEN Set(Cur)
               ELSE IF data
                    THEN Set([s EXCEPT !.isModelSpeaking = TRUE,
                                       !.decodes[a, interrupted] = @ + 1])
                    ELSE Set(stopAudioPlayback([s EXCEPT !.staleDecodes = s.decodes]))

\* One of the pending decodes of (a, i) settles: a stale one or a fresh one.
CanSettle(a, i, stale) ==
    IF stale THEN staleDecodes[a, i] > 0 ELSE decodes[a, i] > staleDecodes[a, i]

DecodeDone ==
    \E a \in Attempts, i \in BOOLEAN, stale \in BOOLEAN, dur \in Durations :
        /\ CanSettle(a, i, stale)
        /\ Set(AfterDecode(Cur, a, i, stale, TRUE, dur))

DecodeFail ==
    \E a \in Attempts, i \in BOOLEAN, stale \in BOOLEAN :
        /\ CanSettle(a, i, stale)
        /\ Set(AfterDecode(Cur, a, i, stale, FALSE, 0))

\* onended of a source (lines 389-394).
onended(s0, src) ==
    Only({(
        LET s1 == [s EXCEPT !.playingSourcesRef = @ \ src]
        IN IF s1.playingSourcesRef = {} THEN [s1 EXCEPT !.isModelSpeaking = FALSE] ELSE s1
        ) : s \in {s0}})

\* A source played to its end, or a source that was stopped (and is no
\* longer in the set) reports its end.
SourceEnded ==
    \/ \E u \in playingSourcesRef :
         /\ outCtx[u.a] = "open"
         /\ clock[u.a] >= u.start + u.dur
         /\ Set(onended(Cur, {u}))
    \/ /\ endPending > 0
       /\ Set(onended([Cur EXCEPT !.endPending = @ - 1], {}))

\* The clock of an open output context advances.
Tick(a) ==
    /\ outCtx[a] = "open"
    /\ clock[a] < MaxClock
    /\ Set([Cur EXCEPT !.clock[a] = @ + 1])

\* ---- capture (onaudioprocess, lines 335-367) ----

\* The script processor of attempt a delivers a buffer.  The packet goes to
\* the Session sessionRef holds; a send that throws, or a rejected promise,
\* ends in the catch of lines 361-363.
Capture(a) ==
    /\ scriptProcessorRef = a /\ inCtx[a] = "open"
    /\ mountedRef /\ sessionRef # 0
    /\ capture.sent + capture.failed < MaxFrames
    /\ \E throws \in BOOLEAN :
         capture' = IF session[sessionRef] = "open" /\ ~throws
                    THEN [capture EXCEPT !.sent = @ + 1]
                    ELSE [capture EXCEPT !.failed = @ + 1]
    /\ UNCHANGED <<appVars, relay, pcm, resample>>

\* ---- the relay server (src/server.js) ----

\* wss.on('connection') up to the await of ai.live.connect (lines 24-31).
connection(r) == [r EXCEPT !.ws = "open", !.connect = "pending", !.connects = @ + 1]

\* ai.live.connect resolved (line 31): the Session is stored and the
\* handlers of lines 78-108 are registered, whatever the state of ws.
RelayConnected(r) ==
    [r EXCEPT !.connect = "resolved", !.session = TRUE, !.remote = "open",
              !.listening = TRUE]

\* ai.live.connect rejected: the catch of lines 71-75 closes ws and returns.
RelayConnectFailed(r) ==
    [r EXCEPT !.connect = "rejected", !.ws = IF @ = "open" THEN "closing" ELSE @]

\* A message handler without the try / catch.
RelayMessageNoCatch(r, throws) ==
    IF r.session /\ throws THEN [r EXCEPT !.uncaught = TRUE] ELSE r

\* ws.on('message') (lines 78-97).  throws: sendRealtimeInput throws; on a
\* Session that is not open it throws or sends nothing.
RelayMessage(r, throws) ==
    IF r.session /\ ~throws /\ r.remote = "open"
    THEN [r EXCEPT !.forwarded = @ + 1]
    ELSE [r EXCEPT !.dropped = @ + 1]

\* ws.on('close') (lines 99-104).
RelayClose(r) ==
    IF r.session /\ r.remote = "open" THEN [r EXCEPT !.remote = "closed"] ELSE r

\* A Session callback that connects again.
RelaySessionEndReconnects(r) ==
    [r EXCEPT !.remote = "ended", !.connect = "pending", !.connects = @ + 1]

\* onclose / onerror of the Session (lines 62-67): they log.
RelaySessionEnd(r) == [r EXCEPT !.remote = "ended"]

\* onmessage of the Session (lines 46-61): audio is sent to an open ws.
RelayAudio(r) ==
    [r EXCEPT !.audio = @ + 1, !.relayed = IF r.ws = "open" THEN @ + 1 ELSE @]

ClientConnects(c) ==
    /\ relay[c].ws = "none"
    /\ relay' = [relay EXCEPT ![c] = connection(@)]
    /\ UNCHANGED <<appVars, pcm, capture, resample>>

RelayConnectResolve(c) ==
    /\ relay[c].connect = "pending"
    /\ relay' = [relay EXCEPT ![c] = RelayConnected(@)]
    /\ UNCHANGED <<appVars, pcm, capture, resample>>

RelayConnectReject(c) ==
    /\ relay[c].connect = "pending"
    /\ relay' = [relay EXCEPT ![c] = RelayConnectFailed(@)]
    /\ UNCHANGED <<appVars, pcm, capture, resample>>

\* A binary frame of the client arrives; with no handler registered the
\* event has no listener and the frame is lost.
ClientFrame(c) ==
    /\ relay[c].ws \in {"open", "closing"}
    /\ relay[c].frames < MaxFrames
    /\ \E throws \in BOOLEAN :
         LET r == [relay[c] EXCEPT !.frames = @ + 1]
         IN relay' = [relay EXCEPT ![c] = IF r.listening
                                          THEN RelayMessage(r, throws)
                                          ELSE [r EXCEPT !.dropped = @ + 1]]
    /\ UNCHANGED <<appVars, pcm, capture, resample>>

\* The client connection closes: the client went away, or the close the
\* server asked for completed.  The close event reaches the handler of
\* lines 99-104 only if it is registered by then.
ClientDisconnects(c) ==
    /\ relay[c].ws \in {"open", "closing"}
    /\ LET r == [relay[c] EXCEPT !.ws = "closed"]
       IN relay' = [relay EXCEPT ![c] = IF r.listening THEN RelayClose(r) ELSE r]
    /\ UNCHANGED <<appVars, pcm, capture, resample>>

RemoteEnds(c) ==
    /\ relay[c].remote = "open"
    /\ relay' = [relay EXCEPT ![c] = RelaySessionEnd(@)]
    /\ UNCHANGED <<appVars, pcm, capture, resample>>

RemoteAudio(c) ==
    /\ relay[c].remote = "open"
    /\ relay[c].audio < MaxFrames
    /\ relay' = [relay EXCEPT ![c] = RelayAudio(@)]
    /\ UNCHANGED <<appVars, pcm, capture, resample>>

NextRelay ==
    \/ \E c \in Clients : ClientConnects(c)
    \/ \E c \in Clients : RelayConnectResolve(c)
    \/ \E c \in Clients : RelayConnectReject(c)
    \/ \E c \in Clients : ClientFrame(c)
    \/ \E c \in Clients : ClientDisconnects(c)
    \/ \E c \in Clients : RemoteEnds(c)
    \/ \E c \in Clients : RemoteAudio(c)

SpecRelay == Init /\ [][NextRelay]_vars

\* A pending ai.live.connect settles, and a close the server asked for
\* completes.
RelaySettle ==
    \E c \in Clients :
        \/ RelayConnectResolve(c)
        \/ RelayConnectReject(c)
        \/ relay[c].ws = "closing" /\ ClientDisconnects(c)

FairRelay == SpecRelay /\ WF_vars(RelaySettle)

\* ---- createPcmBlobForGemini (lines 9-59) ----

\* The integer part of a / b (b > 0), as the conversion of a Number to an
\* integer takes it: towards zero.
Trunc(a, b) == IF a >= 0 THEN a \div b ELSE -((-a) \div b)

\* The store into an Int16Array: the integer part, modulo 2^16, as a signed
\* 16-bit value.
ToInt16(a, b) ==
    LET m == Trunc(a, b) % 65536
    IN IF m >= 32768 THEN m - 65536 ELSE m

\* Math.max(-1, Math.min(1, x)) on the numerator of x.
Clamp(n) == IF n > GridDen THEN GridDen ELSE IF n < -GridDen THEN -GridDen ELSE n

\* Lines 17-18 (and 50-51): one sample to 16 bits.
ToPcm16(n) ==
    LET c == Clamp(n)
    IN IF c < 0 THEN ToInt16(c * 32768, GridDen) ELSE ToInt16(c * 32767, GridDen)

\* Lines 13-24: the rates match, every sample is converted in place.
PassThrough(input) == [i \in 1..Len(input) |-> ToPcm16(input[i])]

\* onaudioprocess hands a frame captured at the target rate to
\* createPcmBlobForGemini (line 357).
Convert ==
    /\ \E input \in Frames :
         pcm' = [called |-> TRUE, input |-> input, rate |-> TargetSampleRate,
                 int16 |-> PassThrough(input)]
    /\ UNCHANGED <<appVars, relay, capture, resample>>

NextPcm == Convert

SpecPcm == Init /\ [][NextPcm]_vars

\* ---- createPcmBlobForGemini, the resampling path (lines 26-43) ----

\* The rates of capture hardware, and one rate whose quotient by the target
\* rate is rounded up when it is stored as a double.
HardwareRates == {8000, 11025, 22050, 24000, 32000, 44100, 48000, 96000}
Rates == HardwareRates \cup {8960}

RECURSIVE Pow2(_)
Pow2(n) == IF n = 0 THEN 1 ELSE 2 * Pow2(n - 1)

RECURSIVE Pow2Mod(_, _)
Pow2Mod(n, m) == IF n = 0 THEN 1 % m ELSE (2 * Pow2Mod(n - 1, m)) % m

RECURSIVE Log2(_)
Log2(k) == IF k < 2 THEN 0 ELSE 1 + Log2(k \div 2)

IsPow2(k) == k = Pow2(Log2(k))

RECURSIVE Log2Up(_, _)
Log2Up(r, n) == IF r * Pow2(n) >= TargetSampleRate THEN n ELSE Log2Up(r, n + 1)

\* Line 27, ratio = inputSampleRate / targetSampleRate as a double: the
\* exponent e with 2^e <= ratio < 2^(e+1).
RatioExp(r) ==
    IF r >= TargetSampleRate THEN Log2(r \div TargetSampleRate) ELSE -Log2Up(r, 0)

\* Line 27: the rounding error of the stored ratio.  With s = MantissaBits -
\* RatioExp(r) and m the 53-bit significand (round to nearest, ties to even),
\* the stored ratio is m / 2^s and RatioErr(r) = r * 2^s - 16000 * m: positive
\* when the ratio was rounded down, negative when it was rounded up, 0 when
\* it is exact.
RatioErr(r) ==
    LET s == MantissaBits - RatioExp(r)
        rem == ((r % TargetSampleRate) * Pow2Mod(s, TargetSampleRate)) % TargetSampleRate
        odd == (((r % (2 * TargetSampleRate)) * Pow2Mod(s, 2 * TargetSampleRate))
                   % (2 * TargetSampleRate)) >= TargetSampleRate
    IN IF 2 * rem < TargetSampleRate THEN rem
       ELSE IF 2 * rem > TargetSampleRate THEN rem - TargetSampleRate
       ELSE IF odd THEN rem - TargetSampleRate ELSE rem

\* x * 2^a > y * 2^b, for exponents of either sign.
GreaterScaled(x, a, y, b) ==
    IF a >= b THEN x * Pow2(a - b) > y ELSE x > y * Pow2(b - a)

\* A double just below the integer k rounds to the double before k, and not
\* to k, when its distance from k, err / (den * 2^(MantissaBits - e)) of k's
\* unit, exceeds half the spacing of the doubles below k.
RoundsBelow(k, err, den, e) ==
    GreaterScaled((IF IsPow2(k) THEN 2 ELSE 1) * err, e + 1, den, Log2(k))

\* Line 28: Math.floor(inputData.length / ratio) in double arithmetic.
FloorQuotient(len, r) ==
    LET q == (len * TargetSampleRate) \div r
        exact == (len * TargetSampleRate) % r = 0
        err == RatioErr(r)
    IN IF exact /\ q > 0 /\ err < 0 /\ RoundsBelow(q, q * (-err), r, RatioExp(r))
       THEN q - 1 ELSE q

\* Lines 33-34: Math.floor(i * ratio) in double arithmetic.
FloorProduct(i, r) ==
    LET t == (i * r) \div TargetSampleRate
        exact == (i * r) % TargetSampleRate = 0
        err == RatioErr(r)
    IN IF exact /\ t > 0 /\ err > 0 /\ RoundsBelow(t, i * err, TargetSampleRate, RatioExp(r))
       THEN t - 1 ELSE t

\* An interpolation that reads the sample after index1 without the clamp.
Index2Unclamped(index1, len) == index1 + 1

\* Line 35: index2 = Math.min(index1 + 1, inputData.length - 1).
Index2(index1, len) == IF index1 + 1 <= len - 1 THEN index1 + 1 ELSE len - 1

\* Lines 32-43: the input indexes the interpolation loop reads.
Reads(len, r, newLength) ==
    UNION {{FloorProduct(i, r), Index2(FloorProduct(i, r), len)} : i \in 0..(newLength - 1)}

\* onaudioprocess hands a frame of len samples captured at rate r to
\* createPcmBlobForGemini (line 357); the rates differ.
Resample ==
    /\ \E len \in 0..MaxResampleLen, r \in Rates :
         LET newLength == FloorQuotient(len, r)
         IN resample' = [called |-> TRUE, length |-> len, rate |-> r,
                         newLength |-> newLength, reads |-> Reads(len, r, newLength)]
    /\ UNCHANGED <<appVars, relay, pcm, capture>>

NextResample == Resample

SpecResample == Init /\ [][NextResample]_vars

\* The session / reconnect state machine.
Next ==
    \/ Mount
    \/ Unmount
    \/ TimerFire
    \/ Retry
    \/ GumReject
    \/ GumResolve
    \/ \E a \in Attempts : ConnectResolve(a)
    \/ \E a \in Attempts : ConnectReject(a)
    \/ \E a \in Attempts : OnError(a)
    \/ \E a \in Attempts : OnClose(a)
    \/ \E a \in Attempts : InCtxClosed(a)
    \/ \E a \in Attempts : OutCtxClosed(a)

Spec == Init /\ [][Next]_vars

\* The scheduling the browser guarantees: a pending timer expires, a pending
\* getUserMedia or connect promise settles, an AudioContext that is closing
\* gets closed.  Failures of an open Session, the unmount and the Retry click
\* may or may not happen.
Settle ==
    \/ TimerFire
    \/ GumResolve
    \/ GumReject
    \/ \E a \in Attempts : ConnectResolve(a) \/ ConnectReject(a)
    \/ \E a \in Attempts : InCtxClosed(a)
    \/ \E a \in Attempts : OutCtxClosed(a)

Fairness == WF_vars(Settle)

\* The component stays mounted and the user does not interfere.
NextMounted ==
    \/ Mount
    \/ TimerFire
    \/ GumReject
    \/ GumResolve
    \/ \E a \in Attempts : ConnectResolve(a)
    \/ \E a \in Attempts : ConnectReject(a)
    \/ \E a \in Attempts : OnError(a)
    \/ \E a \in Attempts : OnClose(a)
    \/ \E a \in Attempts : InCtxClosed(a)
    \/ \E a \in Attempts : OutCtxClosed(a)

FairSpec == Init /\ [][NextMounted]_vars /\ Fairness

\* The playback scheduler over the lifetime of one output pipeline: the
\* component mounts, the connection opens, chunks and interruptions arrive,
\* and the component may unmount.
NextPlay ==
    \/ Mount
    \/ Unmount
    \/ GumResolve
    \/ \E a \in Attempts : ConnectResolve(a)
    \/ \E a \in Attempts : InCtxClosed(a)
    \/ \E a \in Attempts : OutCtxClosed(a)
    \/ \E a \in Attempts : OnMessage(a)
    \/ DecodeDone
    \/ DecodeFail
    \/ SourceEnded
    \/ \E a \in Attempts : Tick(a)

SpecPlay == Init /\ [][NextPlay]_vars

\* Playback and capture on one connection.
NextMedia ==
    \/ NextPlay
    \/ \E a \in Attempts : Capture(a)

SpecMedia == Init /\ [][NextMedia]_vars

\* Playback across reconnects: the connection fails, the timer starts the
\* next attempt, chunks arrive and are decoded meanwhile.
ReplayMessage(a) == OnMessage(a) /\ chunks' <= MaxReplayChunks

NextReplay ==
    \/ Mount
    \/ TimerFire
    \/ GumResolve
    \/ \E a \in Attempts : ConnectResolve(a)
    \/ \E a \in Attempts : OnClose(a)
    \/ \E a \in Attempts : InCtxClosed(a)
    \/ \E a \in Attempts : OutCtxClosed(a)
    \/ \E a \in Attempts : ReplayMessage(a)
    \/ DecodeDone

SpecReplay == Init /\ [][NextReplay]_vars

\* ---- properties ----

\* A Session that was opened and that neither side has closed.
LiveSessions == {a \in Attempts : session[a] \in {"open", "failing"}}

\* C1: in every reachable state at most one Session that was opened and not
\* yet closed exists.
C1_AtMostOneLiveSession == Cardinality(LiveSessions) <= 1

\* A second connection is live after the first one was opened and torn down.
C1_Witness ==
    /\ session[2] = "open"
    /\ session[1] \in {"closing", "closed"}
    /\ sessionRef = 2

\* C2: at most one reconnect timer is pending at any time.
C2_AtMostOneTimer == Len(timers) <= 1

\* The Session of attempt a was opened at some time.
Opened(a) == session[a] \in {"open", "failing", "closing", "closed"}

\* The teardown of attempt a is complete: its tracks are stopped, its audio
\* contexts are closed and its Session is closed by one side or the other.
TornDown(a) ==
    /\ stream[a] # "live"
    /\ inCtx[a] \in {"none", "closed"}
    /\ outCtx[a] \in {"none", "closed"}
    /\ session[a] \notin {"pending", "open", "failing"}

\* The client is active on attempt a, and no attempt ended in a permanent
\* error: a - 1 timer-triggered invocations passed the guard, and every
\* earlier attempt failed transiently or was opened.
C3_Count ==
    \A a \in Attempts :
        (session[a] = "open" /\ mode = "active" /\ mountedRef /\ permanent = {})
        => /\ timerStarts = a - 1
           /\ \A b \in 1..(a - 1) : b \in failed \/ Opened(b)

\* A step that arms a reconnect timer: it calls setTimeout, whether or not
\* it also clears a timer or a timer fires in it.
Arms == setTimeouts' > setTimeouts

\* C3: after N transient failures and a success the client is active after
\* exactly N timer-triggered invocations that passed the guard, one per failed
\* attempt, and every timer is armed only after the teardown of the failed
\* attempts is complete.
C3_ExactlyNRetries ==
    /\ []C3_Count
    /\ [][Arms => \A b \in failed' : TornDown(b)']_vars

PermanentErrorState == mountedRef /\ mode = "error" /\ isPermanentError

\* C4: in the permanent-error state no reconnect timer is pending, none is
\* armed, and an attempt starts only from the Retry button, never from a timer.
C4_NoAutoRetry ==
    /\ [](PermanentErrorState => timers = <<>>)
    /\ [][(PermanentErrorState /\ ~Retry) => (~Arms /\ attempts' = attempts)]_vars

\* C5: after the cleanup of the lifecycle effect no reconnect timer is pending,
\* none is armed and startGeminiSession is not invoked.
C5_NoReconnectAfterShutdown ==
    /\ [](lifecycle = "unmounted" => timers = <<>>)
    /\ [][lifecycle = "unmounted" => (~Arms /\ attempts' = attempts)]_vars

\* Attempt a got as far as a connection: it stored its audio contexts in the
\* refs (lines 303-304).
Connected(a) == outCtx[a] # "none"

\* A step in which startGeminiSession calls getUserMedia, or creates the audio
\* contexts and the Session.
Acquires ==
    \/ gumPending' # 0 /\ gumPending' # gumPending
    \/ \E a \in Attempts :
         \/ inCtx[a] = "none" /\ inCtx'[a] # "none"
         \/ outCtx[a] = "none" /\ outCtx'[a] # "none"
         \/ session[a] = "none" /\ session'[a] # "none"

\* A step in which a resumed stopSession nulls a ref that holds a resource of
\* a connection other than the one it closed.
NullsForeign ==
    \E i \in 1..Len(stops) :
        /\ \A j \in 1..Len(stops') : stops'[j] # stops[i]
        /\ \/ /\ stops[i].pc = "session"
              /\ \/ sessionRef \notin {0, stops[i].p} /\ sessionRef' = 0
                 \/ streamRef \notin {0, stops[i].p} /\ streamRef' = 0
           \/ /\ stops[i].pc \in {"session", "inCtx"}
              /\ audioContextRef \notin {0, stops[i].p} /\ audioContextRef' = 0
           \/ outputAudioContextRef \notin {0, stops[i].p} /\ outputAudioContextRef' = 0

\* C6: startGeminiSession acquires nothing while a stopSession invocation is
\* suspended, every earlier attempt is torn down when it acquires, and no
\* stopSession continuation nulls a resource of a later connection.
C6_StopAwaitedBeforeStart ==
    [][ /\ Acquires => (stops = <<>> /\ \A b \in Attempts : Connected(b) => TornDown(b))
        /\ ~NullsForeign ]_vars

\* C8: an invocation of startGeminiSession made while a Session exists or
\* another invocation is initializing (here by the timer) changes nothing: no
\* attempt, no device, no Session, same mode and status, same guard flag.
C8_StartIsIdempotent ==
    [][(TimerFire /\ (sessionRef # 0 \/ initializingRef))
       => UNCHANGED <<mode, statusMessage, isPermanentError, initializingRef, sessionRef,
                      attempts, gumPending, session, stream, inCtx, outCtx, streamRef,
                      audioContextRef, outputAudioContextRef>>]_vars

\* The guard turned an invocation away while an attempt was initializing, and
\* that attempt went on to create the only Session.
C8_Witness ==
    /\ blockedStarts > 0
    /\ attempts = 2
    /\ session[2] = "pending" /\ sessionRef = 2
    /\ timers = <<>>

\* scheduleReconnect was the last to set the mode and the status.
TransientError ==
    /\ mountedRef /\ mode = "error"
    /\ statusMessage \in {"Session ended. Retrying in 3s...", "Connection lost. Retrying in 3s...",
                          "Network Error. Retrying in 3s...", "Initialization Failed. Retrying in 3s...",
                          "Audio Setup Failed Retrying in 3s..."}

\* The model, not the code, holds the pending timer back: the attempt it would
\* start is beyond MaxAttempts.
BoundReached == timers # <<>> /\ ~CanStart(Cur)

\* C7: while the component stays mounted, every terminal session event is
\* eventually followed by an invocation of startGeminiSession that passes the
\* guard: from a transient-error state reached with k attempts made, attempt
\* k + 1 eventually starts.
C7_EventuallyNewAttempt ==
    \A k \in 0..MaxAttempts :
        (TransientError /\ attempts = k) ~> (attempts > k \/ ~mountedRef \/ BoundReached)

\* Two sources of the active set play at a common instant.
Overlap(u, v) == Max(u.start, v.start) < (IF u.start + u.dur <= v.start + v.dur
                                          THEN u.start + u.dur ELSE v.start + v.dur)

\* C9: no two playback units of the active set have overlapping
\* [start, start + duration) intervals.
C9_NoOverlap ==
    \A u \in playingSourcesRef : \A v \in playingSourcesRef : u # v => ~Overlap(u, v)

\* Two units of positive duration are active, scheduled after an interruption
\* emptied the set.
C9_Witness ==
    /\ interrupts > 0
    /\ \E u \in playingSourcesRef : \E v \in playingSourcesRef :
          u # v /\ u.dur > 0 /\ v.dur > 0

\* A step that schedules a source (source.start), whether or not the same
\* step goes on to stop it (a message that also carries interrupted).
Schedules == scheduled' > scheduled

\* The start time of the source a step schedules: the argument of
\* source.start (lines 395-397), for the context whose decode settled.
NewStart ==
    LET a == CHOOSE b \in Attempts : \E i \in BOOLEAN : decodes'[b, i] < decodes[b, i]
    IN StartTime(nextStartTimeRef, clock[a])

\* C10 as stated: within one output pipeline every newly scheduled unit
\* starts no earlier than every unit scheduled before it.
C10_StartsNonDecreasing == [][Schedules => NewStart >= maxStart]_vars

\* C10 as amended: every newly scheduled unit starts no earlier than every
\* unit scheduled since the last reset of the cursor by stopAudioPlayback.
C10_StartsNonDecreasingSinceReset == [][Schedules => NewStart >= lastStart]_vars

\* A unit was scheduled behind an earlier one that is still ahead of the clock.
C10_Witness ==
    /\ lastStart > 0
    /\ \E u \in playingSourcesRef : u.start = lastStart /\ clock[u.a] < u.start

\* C11: the speaking flag is true exactly when the set of active playback
\* units is non-empty.
C11_SpeakingIffActive == isModelSpeaking <=> (playingSourcesRef # {})

\* A step in which onmessage calls stopAudioPlayback for an interruption: the
\* message carried no audio, or the decode of its audio has settled.
Interrupts ==
    \/ mountedRef /\ interrupts' > interrupts /\ chunks' = chunks
    \/ \E a \in Attempts : decodes'[a, TRUE] < decodes[a, TRUE]

\* A step in which the decode of a chunk that arrived before an interruption
\* settles after it.
StaleSettles == \E a \in Attempts, i \in BOOLEAN : staleDecodes'[a, i] < staleDecodes[a, i]

\* C12: an interruption leaves the active set empty and the start cursor at 0,
\* and no chunk that arrived before the interruption is added to the active
\* set or moves the cursor after it.
C12_InterruptClears ==
    [][ /\ Interrupts => (playingSourcesRef' = {} /\ nextStartTimeRef' = 0)
        /\ StaleSettles => UNCHANGED <<playingSourcesRef, nextStartTimeRef>> ]_vars

\* C13: whenever a client WebSocket has disconnected, the Session opened for
\* that client is eventually closed, whether the disconnect came before,
\* during or after the connect.
C13_SessionClosedAfterDisconnect ==
    \A c \in Clients :
        (relay[c].ws = "closed") ~> (relay[c].connect # "pending" /\ relay[c].remote # "open")

\* A step in which a binary frame of client c arrives at the server.
FrameArrives(c) == relay'[c].frames > relay[c].frames

\* The frame that arrives is dropped and no exception leaves the handler.
FrameDropped(c) ==
    /\ relay'[c].dropped = relay[c].dropped + 1
    /\ relay'[c].forwarded = relay[c].forwarded
    /\ ~relay'[c].uncaught

\* C14 as stated: a frame that arrives when the Session failed to open is
\* dropped, no exception propagates, and the client connection remains open.
C14_FrameDroppedConnectionOpen ==
    [][\A c \in Clients :
          (FrameArrives(c) /\ relay[c].connect = "rejected")
          => (FrameDropped(c) /\ relay'[c].ws = "open")]_vars

\* C14 as amended: a frame that arrives when no Session is open (the connect
\* is pending or failed, or the Session was closed or ended) is dropped, no
\* exception propagates and the frame leaves the client connection as it
\* was; when the Session failed to open the server has closed the client
\* connection, when it ended after opening the connection stays open.
C14_FrameDropped ==
    /\ [][\A c \in Clients :
             (FrameArrives(c) /\ relay[c].remote # "open")
             => (FrameDropped(c) /\ relay'[c].ws = relay[c].ws)]_vars
    /\ [](\A c \in Clients : relay[c].connect = "rejected" => relay[c].ws \in {"closing", "closed"})
    /\ [][\A c \in Clients :
             (relay[c].remote = "open" /\ relay'[c].remote = "ended")
             => relay'[c].ws = relay[c].ws]_vars

\* A frame arrived, and was dropped, after the Session failed to open and
\* before the close of the client connection completed; another one was
\* dropped on a Session that ended after opening, its connection still open.
C14_Witness ==
    /\ relay[1].connect = "rejected" /\ relay[1].ws = "closing" /\ relay[1].dropped = 1
    /\ relay[2].remote = "ended" /\ relay[2].ws = "open" /\ relay[2].dropped = 1

\* C15: for each client connection the server calls ai.live.connect at most
\* once, also after the Session closed, ended or failed to open.
C15_ConnectAtMostOnce == \A c \in Clients : relay[c].connects <= 1

\* One Session failed to open and one ended after opening; frames arrived
\* afterwards and each connection still has its single connect.
C15_Witness ==
    /\ relay[1].connect = "rejected" /\ relay[1].frames > 0 /\ relay[1].connects = 1
    /\ relay[2].remote = "ended" /\ relay[2].frames > 0 /\ relay[2].connects = 1

\* round(p / q) for q > 0: the nearest integer, halves towards +infinity
\* (Math.round).
Round(p, q) == (2 * p + q) \div (2 * q)

\* C16: at the matching rate every emitted 16-bit value equals
\* round(clamp(s, -1, 1) * 32767) for s >= 0 and round(clamp(s, -1, 1) * 32768)
\* for s < 0, and the output has as many samples as the input.
C16_MatchedRateRounds ==
    (pcm.called /\ pcm.rate = TargetSampleRate)
    => /\ Len(pcm.int16) = Len(pcm.input)
       /\ \A i \in 1..Len(pcm.input) :
            LET c == Clamp(pcm.input[i])
            IN pcm.int16[i] = IF c >= 0 THEN Round(c * 32767, GridDen)
                                         ELSE Round(c * 32768, GridDen)

\* A step in which a suspended stopSession invocation runs to its end.
StopCompletes == Len(stops') < Len(stops)

\* Every reference stopSession owns is null.
AllRefsNull ==
    /\ sessionRef = 0 /\ streamRef = 0
    /\ scriptProcessorRef = 0 /\ sourceRef = 0
    /\ audioContextRef = 0 /\ outputAudioContextRef = 0

\* C17: when stopSession completes every owned reference is null, whichever
\* step failed on the way, and every stopSession invocation completes.
C17_StopSessionBestEffort ==
    /\ [][StopCompletes => AllRefsNull']_vars
    /\ (stops # <<>>) ~> (stops = <<>>)

\* A step in which the decode of a chunk (of a message without interruption)
\* fails.
DecodeFails ==
    /\ scheduled' = scheduled
    /\ \E a \in Attempts : decodes'[a, FALSE] < decodes[a, FALSE]

\* A step in which the send of a captured packet fails.
SendFails == capture'.failed > capture.failed

\* Every chunk that arrived has failed to decode, and nothing else arrived.
OnlyFailedChunks ==
    /\ chunks > 0 /\ scheduled = 0 /\ interrupts = 0
    /\ \A a \in Attempts, i \in BOOLEAN : decodes[a, i] = 0

\* C18: a failed decode or a failed send changes none of mode, status,
\* speaking flag, Session, reconnect timer, active set and start cursor, and
\* after chunks that all failed the speaking flag, the active set and the
\* cursor are as if no chunk had arrived.
C18_LocalFailuresAbsorbed ==
    /\ [][(DecodeFails \/ SendFails)
           => UNCHANGED <<mode, statusMessage, isModelSpeaking, session, sessionRef,
                          timers, playingSourcesRef, nextStartTimeRef>>]_vars
    /\ [](OnlyFailedChunks
           => (~isModelSpeaking /\ playingSourcesRef = {} /\ nextStartTimeRef = 0))

\* The close event of attempt a arrives after stopSession closed its Session,
\* stopped its tracks and closed its contexts.
LateClose(a) ==
    /\ session[a] = "closing" /\ session'[a] = "closed"
    /\ sessionRef # a /\ stream[a] # "live"
    /\ inCtx[a] \in {"none", "closed"} /\ outCtx[a] \in {"none", "closed"}

\* C19: a callback of a connection that was already torn down is a no-op: it
\* changes neither mode nor status, arms or clears no timer, starts no
\* teardown, and leaves the Session, stream, contexts, active set and cursor
\* of every other connection alone.
C19_StaleCallbacksAreNoOps ==
    [][\A a \in Attempts :
         LateClose(a)
         => /\ UNCHANGED <<mode, statusMessage, isPermanentError, timers,
                           reconnectTimeoutRef, stops, sessionRef, streamRef,
                           audioContextRef, outputAudioContextRef, stream, inCtx,
                           outCtx, playingSourcesRef, nextStartTimeRef>>
            /\ \A b \in Attempts \ {a} : session'[b] = session[b]]_vars

\* startGeminiSession stores a new output audio context (line 304).
NewOutputPipeline ==
    /\ outputAudioContextRef' # outputAudioContextRef
    /\ outputAudioContextRef' # 0

\* C20: whenever a new output pipeline is created, on the first start and
\* after every reconnect, the start cursor is 0 and the active set is empty.
C20_FreshPipelineIsReset ==
    [][NewOutputPipeline => (nextStartTimeRef = 0 /\ playingSourcesRef = {})]_vars

\* The exact quotient floor(L * 16000 / R).
ExactLength(len, r) == (len * TargetSampleRate) \div r

\* C21: the resampling path produces exactly floor(L * 16000 / R) samples
\* for every length L and every rate R other than 16000, and every index it
\* reads lies in [0, L - 1].
C21_ResampleLengthExact ==
    resample.called
    => /\ resample.newLength = ExactLength(resample.length, resample.rate)
       /\ resample.reads \subseteq 0..(resample.length - 1)

\* C21 as amended: the length is floor(L * 16000 / R) at every hardware rate
\* and whenever L * 16000 / R is not an integer; otherwise it is that value
\* or one less, never negative; no output means no read, and every index
\* read lies in [0, L - 1].
C21_ResampleLengthInDoubles ==
    resample.called
    => LET len == resample.length
           r == resample.rate
       IN /\ resample.newLength \in {ExactLength(len, r), ExactLength(len, r) - 1}
          /\ resample.newLength >= 0
          /\ (r \in HardwareRates \/ (len * TargetSampleRate) % r # 0)
             => resample.newLength = ExactLength(len, r)
          /\ resample.newLength = 0 => resample.reads = {}
          /\ resample.reads \subseteq 0..(len - 1)

\* A frame is upsampled and the last output sample interpolates at the end
\* of the input buffer.
C21_Witness ==
    /\ resample.called /\ resample.rate < TargetSampleRate
    /\ resample.newLength > resample.length
    /\ (resample.length - 1) \in resample.reads

\* getUserMedia of attempt a resolves after the component was unmounted.
GrantedAfterUnmount(a) ==
    /\ gumPending = a /\ gumPending' = 0
    /\ ~mountedRef
    /\ stream'[a] # "none"

\* C22: when the capture device is granted after the component was
\* unmounted, the tracks are stopped, the attempt creates no audio context
\* and no Session, the initialization flag is cleared, and no capture track
\* is live.
C22_GrantAfterUnmountReleased ==
    [][\A a \in Attempts :
         GrantedAfterUnmount(a)
         => /\ stream'[a] = "stopped"
            /\ inCtx'[a] = "none" /\ outCtx'[a] = "none" /\ session'[a] = "none"
            /\ ~initializingRef'
            /\ UNCHANGED <<sessionRef, streamRef, audioContextRef, outputAudioContextRef>>
            /\ \A b \in Attempts : stream'[b] # "live"]_vars

\* The device was granted to an unmounted component and its tracks were
\* stopped at once.
C22_Witness ==
    /\ lifecycle = "unmounted" /\ gumPending = 0 /\ ~initializingRef
    /\ \E a \in Attempts :
         /\ stream[a] = "stopped" /\ inCtx[a] = "none" /\ session[a] = "none"
         /\ a \notin permanent /\ a \notin failed

\* C23: while the component is mounted, mode = 'active' implies that a
\* Session handle is held and no reconnect timer is pending.
C23_ActiveHoldsSession ==
    (mountedRef /\ mode = "active") => (sessionRef # 0 /\ timers = <<>>)

\* Attempt a ends in the permanent-error state in this step.
EndsPermanent(a) == a \notin permanent /\ a \in permanent'

\* C24: when an attempt ends in the permanent-error state, no capture track
\* of it is live, no audio context it created is open, no Session is held
\* and the initialization flag is false.
C24_PermanentErrorReleasesAll ==
    [][\A a \in Attempts :
         EndsPermanent(a)
         => /\ stream'[a] # "live"
            /\ inCtx'[a] # "open" /\ outCtx'[a] # "open"
            /\ session'[a] = "none" /\ sessionRef' = 0
            /\ ~initializingRef']_vars
====
